---- MODULE Spec2Model ----
(***************************************************************************)
(* PrawnDO digital output sequencer: the timeline compiler                 *)
(* (labscript_devices.py: _Pod.get_update_times, PrawnDODevice             *)
(* .generate_code) and the BLACS worker that programs the device           *)
(* (blacs_workers.py: PrawnDOWorker.transition_to_buffered,                *)
(* transition_to_manual, abort_buffered, _dict_to_int, _int_to_dict and    *)
(* the serial link of PrawnDOInterface).                                   *)
(*                                                                         *)
(* Times are exact nanosecond counts.  A time, a gap and a cycle count are *)
(* two-limb numbers <<hi, lo>> because a gap of 2^32 clock cycles does not *)
(* fit the 32-bit integers TLC computes with:                             *)
(*   a time  <<hi, lo>> is hi * TimeBase + lo nanoseconds, lo < TimeBase   *)
(*   a count <<hi, lo>> is hi * Limb + lo cycles,          lo < Limb       *)
(* with TimeBase = Limb * resolution, so that dividing a time by the       *)
(* resolution divides only its low limb.  The source computes in float64;  *)
(* the model computes the same quotients exactly.                          *)
(***************************************************************************)
EXTENDS Integers, Sequences, FiniteSets, TLC

\* ---------------------------------------------------------------- constants

\* PrawnDODevice.resolution, in ns (10e-9 s)
resolution == 10

\* PrawnDODevice.minimum_duration, in ns (50e-9 s); handed to _Pod as min_duration
minimum_duration == 50

\* PrawnDODevice.max_instructions
max_instructions == 23010

Limb == 2^16

TimeBase == Limb * resolution

\* ------------------------------------------------------------------- bounds

\* change times fed to get_update_times in one compilation
MaxEvents == 3

\* entries of compiler.wait_table in one compilation
MaxWaits == 2

\* calls of transition_to_buffered on one worker
MaxCalls == 2

\* shots programmed into one device in a run of shots
MaxShots == 3

\* ------------------------------------------------------- two-limb arithmetic

Ns(x) == <<x \div TimeBase, x % TimeBase>>

\* the time of k * 2^16 clock cycles plus x ns
Far(k, x) == <<k + (x \div TimeBase), x % TimeBase>>

NumLess(a, b) == a[1] < b[1] \/ (a[1] = b[1] /\ a[2] < b[2])

\* a - b for a >= b
TimeSub(a, b) ==
    IF a[2] >= b[2] THEN <<a[1] - b[1], a[2] - b[2]>>
    ELSE <<a[1] - b[1] - 1, a[2] + TimeBase - b[2]>>

\* gap >= min_duration
AtLeastMinDuration(gap) == gap[1] > 0 \/ gap[2] >= minimum_duration

\* np.rint(x / r) for integers x >= 0, r > 0: round half to even
RintDiv(x, r) ==
    LET q == x \div r
        m == x % r
    IN  IF 2 * m < r THEN q
        ELSE IF 2 * m > r THEN q + 1
        ELSE IF q % 2 = 0 THEN q ELSE q + 1

\* np.rint(gap / resolution) as a two-limb cycle count
RintCycles(gap) ==
    LET lo == RintDiv(gap[2], resolution)
    IN  IF lo = Limb THEN <<gap[1] + 1, 0>> ELSE <<gap[1], lo>>

\* what a build can give for a float64 outside the uint32 range
CastModes == {"wrap", "saturate"}

\* .astype(np.uint32) of a non-negative whole float64
AsUint32(c, mode) ==
    IF c[1] < Limb THEN c
    ELSE IF mode = "wrap" THEN <<c[1] % Limb, c[2]>>
    ELSE <<Limb - 1, Limb - 1>>

Zero == <<0, 0>>

\* ------------------------------------------------------------------- inputs

\* change times of the outputs (ns): sub-minimum spacings, half-cycle gaps
\* (55 ns, 65 ns), the 100 ns / 100.03 us scenario, a gap of 2^32 cycles
TimeSet == {Ns(0), Ns(30), Ns(55), Ns(100), Ns(165), Ns(100030), Far(Limb, 0), Far(Limb, 70)}

\* keys of compiler.wait_table (ns)
WaitSet == {Ns(0), Ns(40), Ns(100), Ns(170), Far(Limb, 100)}

\* output words produced by bitfield() for the merged instants
WordSet == {0, 1, 3}

SeqsUpTo(S, n) == UNION {[1..k -> S] : k \in 0..n}

\* -------------------------------------------------------------------- state

VARIABLES
    pc,            \* position of the compilation: "merge", "waits", "done"
    pending,       \* change times get_update_times has still to look at
    update_times,  \* _Pod.get_update_times: the merged instants
    words,         \* generate_code: bitfield() of the timeseries, one word per instant
    wait_table,    \* compiler.wait_table, in iteration order
    wait_i,        \* number of waits already inserted
    do_table,      \* generate_code: local do_table
    reps,          \* generate_code: local reps
    h5,            \* the device group of the shot file: NoData or [do_data, reps_data]
    gen_result     \* "none", "skipped", "written", "too_many"

compilerVars == <<pc, pending, update_times, words, wait_table, wait_i, do_table, reps, h5, gen_result>>

VARIABLES
    wpc,           \* position of transition_to_buffered: "idle", "clk", "cls", "adm", "set", "run"
    smart_cache,   \* PrawnDOWorker.smart_cache: NoCache or [do_table, reps]
    fresh,         \* transition_to_buffered: the argument, set at line 214
    loaded,        \* transition_to_buffered: do_table and reps read from the shot file
    set_i,         \* the row the incremental loop programs next
    new_inst,      \* line 205-211: the number of differing rows, -1 when not computed
    sent,          \* the commands written to the serial link in the current call
    outcome,       \* how the last call ended
    cache0,        \* history: smart_cache when the current call reached line 188
    fresh_arg,     \* history: the fresh argument of the current call
    calls,         \* number of calls of transition_to_buffered so far
    rx,            \* self.conn: reply lines received and not yet read
    replies,       \* history: the device's reply to each command of sent
    all_ok,        \* history: the device has answered ok to every command of every call so far
    prior_fatal,   \* history: the fatal error that ended the operation before the current call
    device,        \* the program resident in the device: [do_table, reps]
    mpc,           \* position of transition_to_manual: "idle", "poll", "abt", "abort_poll"
    poll_i,        \* transition_to_manual: i
    run_status,    \* the run status of the latest status() of the operation, -1 before it
    abt_sent,      \* number of 'abt' commands written in the current transition_to_manual
    m_outcome,     \* how the last transition_to_manual or abort_buffered ended
    front_panel_values,  \* program_manual: the argument
    man_value,     \* program_manual: value, -1 before it is computed
    remote_values, \* program_manual: the dictionary returned
    final_values   \* transition_to_buffered: the dictionary returned, NoDict before it returns one

linkVars == <<rx, replies, all_ok>>

manualVars == <<mpc, poll_i, run_status, abt_sent, m_outcome>>

panelVars == <<front_panel_values, man_value, remote_values, final_values>>

workerVars ==
    <<wpc, smart_cache, fresh, loaded, set_i, new_inst, sent, outcome, cache0, fresh_arg, calls,
      prior_fatal, device, linkVars, manualVars, panelVars>>

NoData == [do_data |-> <<>>, reps_data |-> <<>>, present |-> FALSE]

\* ------------------------------------------------- _Pod.get_update_times

\* np.searchsorted(a, key) (side='left') on a sorted array: 0-based index
RECURSIVE Bisect(_, _, _, _)
Bisect(a, key, lo, hi) ==
    IF lo >= hi THEN lo
    ELSE LET mid == (lo + hi) \div 2
         IN  IF NumLess(a[mid + 1], key) THEN Bisect(a, key, mid + 1, hi)
             ELSE Bisect(a, key, lo, mid)

searchsorted(a, key) == Bisect(a, key, 0, Len(a))

\* np.insert(a, index, value), index 0-based
np_insert(a, index, value) ==
    SubSeq(a, 1, index) \o <<value>> \o SubSeq(a, index + 1, Len(a))

\* InsertTime comparing only with the preceding instant
InsertTime_NoUpperCheck(ut, time) ==
    IF \E i \in 1..Len(ut) : ut[i] = time THEN ut
    ELSE IF Len(ut) = 0 THEN Append(ut, time)
    ELSE IF NumLess(ut[Len(ut)], time) THEN
        IF AtLeastMinDuration(TimeSub(time, ut[Len(ut)])) THEN Append(ut, time) ELSE ut
    ELSE IF NumLess(time, ut[1]) THEN
        IF AtLeastMinDuration(TimeSub(ut[1], time)) THEN np_insert(ut, 0, time) ELSE ut
    ELSE
        LET index == searchsorted(ut, time)
        IN  IF AtLeastMinDuration(TimeSub(time, ut[index]))
            THEN np_insert(ut, index, time)
            ELSE ut

\* the body of the inner loop of get_update_times for one change time
InsertTime(ut, time) ==
    IF \E i \in 1..Len(ut) : ut[i] = time THEN ut
    ELSE IF Len(ut) = 0 THEN Append(ut, time)
    ELSE IF NumLess(ut[Len(ut)], time) THEN
        IF AtLeastMinDuration(TimeSub(time, ut[Len(ut)])) THEN Append(ut, time) ELSE ut
    ELSE IF NumLess(time, ut[1]) THEN
        IF AtLeastMinDuration(TimeSub(ut[1], time)) THEN np_insert(ut, 0, time) ELSE ut
    ELSE
        LET index == searchsorted(ut, time)
        IN  IF /\ AtLeastMinDuration(TimeSub(time, ut[index]))
               /\ AtLeastMinDuration(TimeSub(ut[index + 1], time))
            THEN np_insert(ut, index, time)
            ELSE ut

\* lines 85-119: the two loops of get_update_times over the change times in
\* the order times, starting from the merged instants ut
RECURSIVE MergeAll(_, _)
MergeAll(ut, times) ==
    IF times = <<>> THEN ut
    ELSE MergeAll(InsertTime(ut, Head(times)), Tail(times))

\* one iteration of "for time in output.get_change_times()"
MergeStep ==
    /\ pc = "merge"
    /\ pending # <<>>
    /\ update_times' = InsertTime(update_times, Head(pending))
    /\ pending' = Tail(pending)
    /\ UNCHANGED <<pc, words, wait_table, wait_i, do_table, reps, h5, gen_result>>
    /\ UNCHANGED workerVars

\* ------------------------------------------- PrawnDODevice.generate_code

\* the words bitfield() can give for n instants
WordChoices(n) ==
    IF n <= MaxEvents THEN [1..n -> WordSet]
    ELSE {[i \in 1..n |-> i % 2]}

\* compiler.wait_table is a dict keyed by time: its keys are distinct
WaitTables ==
    {wt \in SeqsUpTo(WaitSet, MaxWaits) :
        \A i, j \in 1..Len(wt) : i # j => wt[i] # wt[j]}

\* DiffReps without np.diff: the instants themselves, in cycles
DiffReps_NoDiff(times, mode) ==
    [i \in 1..(Len(times) - 1) |-> AsUint32(RintCycles(times[i + 1]), mode)]

\* np.rint(np.diff(times)/self.resolution).astype(np.uint32)
DiffReps(times, mode) ==
    [i \in 1..(Len(times) - 1) |->
        AsUint32(RintCycles(TimeSub(times[i + 1], times[i])), mode)]

\* PyPrev reading a[index] instead of a[index - 1]
PyPrev_Next(a, index) == a[index + 1]

\* a[index - 1] with Python's indexing: index 0 reads the last element
PyPrev(a, index) == IF index = 0 THEN a[Len(a)] ELSE a[index]

\* GenBegin without the early return for an empty sequence of instants
GenBegin_NoEarlyReturn ==
    /\ pc = "merge"
    /\ pending = <<>>
    /\ \E mode \in CastModes :
        \E new_reps \in {Append(Append(DiffReps(update_times, mode), Zero), Zero)} :
            \E w \in WordChoices(Len(update_times)), wt \in WaitTables :
            /\ words' = w
            /\ do_table' = Append(w, 0)
            /\ reps' = new_reps
            /\ wait_table' = wt
            /\ wait_i' = 0
            /\ pc' = "waits"
            /\ UNCHANGED gen_result
    /\ UNCHANGED <<pending, update_times, h5>>
    /\ UNCHANGED workerVars

\* lines 239-258: the early return, the words, the reps and the stop sequence
GenBegin ==
    /\ pc = "merge"
    /\ pending = <<>>
    /\ IF Len(update_times) = 0
       THEN /\ pc' = "done"
            /\ gen_result' = "skipped"
            /\ UNCHANGED <<words, wait_table, wait_i, do_table, reps>>
       ELSE \E mode \in CastModes :
            \E new_reps \in {Append(Append(DiffReps(update_times, mode), Zero), Zero)} :
                \E w \in WordChoices(Len(update_times)), wt \in WaitTables :
                /\ words' = w
                /\ do_table' = Append(w, 0)
                /\ reps' = new_reps
                /\ wait_table' = wt
                /\ wait_i' = 0
                /\ pc' = "waits"
                /\ UNCHANGED gen_result
    /\ UNCHANGED <<pending, update_times, h5>>
    /\ UNCHANGED workerVars

\* lines 262-267: one iteration of "for wait in compiler.wait_table"
InsertWait ==
    /\ pc = "waits"
    /\ wait_i < Len(wait_table)
    /\ LET index == searchsorted(update_times, wait_table[wait_i + 1])
       IN  /\ do_table' = np_insert(do_table, index, PyPrev(do_table, index))
           /\ reps' = np_insert(reps, index, Zero)
    /\ wait_i' = wait_i + 1
    /\ UNCHANGED <<pc, pending, update_times, words, wait_table, h5, gen_result>>
    /\ UNCHANGED workerVars

\* GenFinish rejecting a table of exactly max_instructions rows
GenFinish_OffByOne ==
    /\ pc = "waits"
    /\ wait_i = Len(wait_table)
    /\ IF Len(reps) >= max_instructions
       THEN /\ gen_result' = "too_many"
            /\ UNCHANGED h5
       ELSE /\ gen_result' = "written"
            /\ h5' = [do_data |-> do_table, reps_data |-> reps, present |-> TRUE]
    /\ pc' = "done"
    /\ UNCHANGED <<pending, update_times, words, wait_table, wait_i, do_table, reps>>
    /\ UNCHANGED workerVars

\* lines 271-280: the instruction limit and the two datasets
GenFinish ==
    /\ pc = "waits"
    /\ wait_i = Len(wait_table)
    /\ IF Len(reps) > max_instructions
       THEN /\ gen_result' = "too_many"
            /\ UNCHANGED h5
       ELSE /\ gen_result' = "written"
            /\ h5' = [do_data |-> do_table, reps_data |-> reps, present |-> TRUE]
    /\ pc' = "done"
    /\ UNCHANGED <<pending, update_times, words, wait_table, wait_i, do_table, reps>>
    /\ UNCHANGED workerVars


\* ------------------------------- PrawnDOWorker._dict_to_int / _int_to_dict

\* hex(i) for i in range(16): the names of the 16 outputs
HexKeys ==
    <<"0x0", "0x1", "0x2", "0x3", "0x4", "0x5", "0x6", "0x7",
      "0x8", "0x9", "0xa", "0xb", "0xc", "0xd", "0xe", "0xf">>

hex(i) == HexKeys[i + 1]

\* int(conn, 16)
int16(conn) == CHOOSE i \in 0..15 : HexKeys[i + 1] = conn

Channels == {hex(i) : i \in 0..15}

\* a | b for non-negative integers
RECURSIVE BitOr(_, _)
BitOr(a, b) ==
    IF a = 0 THEN b
    ELSE IF b = 0 THEN a
    ELSE (IF a % 2 = 1 \/ b % 2 = 1 THEN 1 ELSE 0) + 2 * BitOr(a \div 2, b \div 2)

\* value << n
ShiftLeft(value, n) == value * 2^n

\* (val >> n) & 1
BitAt(val, n) == (val \div 2^n) % 2

\* lines 104-108: val |= value << int(conn, 16) over the items of d, in the
\* order of keys
RECURSIVE DictToIntLoop(_, _, _)
DictToIntLoop(d, keys, val) ==
    IF keys = <<>> THEN val
    ELSE DictToIntLoop(d, Tail(keys), BitOr(val, ShiftLeft(d[Head(keys)], int16(Head(keys)))))

dict_to_int(d) == DictToIntLoop(d, HexKeys, 0)

\* int_to_dict reading bit i + 1 for output i
int_to_dict_OffByOne(val) == [conn \in Channels |-> BitAt(val, int16(conn) + 1)]

\* line 119: {hex(i): ((val >> i) & 1) for i in range(16)}
int_to_dict(val) == [conn \in Channels |-> BitAt(val, int16(conn))]

\* no dictionary yet
NoDict == [conn \in Channels |-> -1]

\* ------------------------------------------------ PrawnDOWorker (BLACS)

\* {'do_table': None, 'reps': None}
NoCache == [do_table |-> <<>>, reps |-> <<>>, present |-> FALSE]

\* what readline() can return for a command that expects 'ok\r\n'
Responses == {"ok", "err"}

\* the status lines of the device, by run status; the clock status is not used
StatusLines ==
    <<"run-status:0 clock-status:0", "run-status:1 clock-status:0",
      "run-status:2 clock-status:0", "run-status:3 clock-status:0",
      "run-status:4 clock-status:0", "run-status:5 clock-status:0",
      "run-status:6 clock-status:0">>

\* what the device can reply to 'sts': a status line or a line that is not one
StatusReplies == {StatusLines[s + 1] : s \in 0..6} \cup {"err"}

\* re.match(r"run-status:(\d) clock-status:(\d)(\r\n)?", resp): the run status,
\* -1 when the line does not match
ParseStatus(line) ==
    IF \E s \in 0..6 : line = StatusLines[s + 1]
    THEN CHOOSE s \in 0..6 : line = StatusLines[s + 1]
    ELSE -1

\* send_command: the command is written and one readline() follows.  The line
\* read is the oldest unread line of the input buffer.  With the buffer empty
\* it is the device's reply, or '' when the 0.5 s timeout expires first: the
\* reply then arrives later and stays in the buffer.  reply is what the device
\* answers to this command, taken from pool.
Exchanges(pool) ==
    IF rx # <<>>
    THEN {[line |-> Head(rx), rx2 |-> Append(Tail(rx), r), reply |-> r] : r \in pool}
    ELSE {[line |-> r, rx2 |-> <<>>, reply |-> r] : r \in pool}
         \cup {[line |-> "", rx2 |-> <<r>>, reply |-> r] : r \in pool}

\* the effect of one exchange of transition_to_buffered on the link
Link(x) ==
    /\ rx' = x.rx2
    /\ replies' = Append(replies, x.reply)
    /\ all_ok' = (all_ok /\ x.reply = "ok")

\* the device with no program resident
EmptyProgram == [do_table |-> <<>>, reps |-> <<>>]

\* a row of the device's memory that no command has written
NoRow == [output |-> -1, rep |-> <<-1, -1>>]

\* 'set i output rep' executed by the device: row i (0-based) is overwritten;
\* rows between the end of the program and row i are rows nobody has written
DeviceSet(prog, i, output, rep) ==
    LET n == Len(prog.reps)
    IN  IF i < n
        THEN [do_table |-> [prog.do_table EXCEPT ![i + 1] = output],
              reps |-> [prog.reps EXCEPT ![i + 1] = rep]]
        ELSE [do_table |-> prog.do_table \o [k \in 1..(i - n) |-> NoRow.output] \o <<output>>,
              reps |-> prog.reps \o [k \in 1..(i - n) |-> NoRow.rep] \o <<rep>>]

\* the device executes the command of exchange x when it answers ok to it
Executes(x, program) == device' = IF x.reply = "ok" THEN program ELSE device

Min(a, b) == IF a < b THEN a ELSE b

\* np.sum((curr_reps[:n] != reps[:n]) | (curr_do[:n] != do_table[:n]))
Mismatches(cache, tbl, n) ==
    Cardinality({i \in 1..n :
        cache.reps[i] # tbl.reps[i] \/ cache.do_table[i] # tbl.do_table[i]})

\* NewInst counting the rows of a longer cache as well
NewInst_AbsDiff(cache, tbl) ==
    LET n_curr == Len(cache.reps)
        n_new == Len(tbl.reps)
    IN  IF n_curr > n_new THEN Mismatches(cache, tbl, n_new) + (n_curr - n_new)
        ELSE IF n_curr < n_new THEN Mismatches(cache, tbl, n_curr) + (n_new - n_curr)
        ELSE Mismatches(cache, tbl, n_new)

\* lines 201-211: the number of rows to program
NewInst(cache, tbl) ==
    LET n_curr == Len(cache.reps)
        n_new == Len(tbl.reps)
    IN  IF n_curr > n_new THEN Mismatches(cache, tbl, n_new)
        ELSE IF n_curr < n_new THEN Mismatches(cache, tbl, n_curr) + (n_new - n_curr)
        ELSE Mismatches(cache, tbl, n_new)

\* OverThreshold with >= in place of >
OverThreshold_Inclusive(ninst, total_inst) == 10 * ninst >= total_inst

\* line 213: new_inst / total_inst > 0.1
OverThreshold(ninst, total_inst) == 10 * ninst > total_inst

\* lines 227-240: the first row at or after 0-based index from that the loop
\* programs, or -1 when the loop ends without programming another row
NextSet(cache, tbl, from) ==
    LET rows == {i \in from..(Len(tbl.reps) - 1) :
                    \/ i >= Len(cache.reps)
                    \/ cache.do_table[i + 1] # tbl.do_table[i + 1]
                    \/ cache.reps[i + 1] # tbl.reps[i + 1]}
    IN  IF rows = {} THEN -1 ELSE CHOOSE i \in rows : \A j \in rows : i <= j

\* the fatal error that ended the latest operation of the worker: the command
\* whose reply was refused, "index" for the IndexError of the incremental loop,
\* the error of transition_to_manual, or "none"
LastFatal ==
    IF m_outcome # "none" THEN (IF m_outcome \in {"True", "abort_True"} THEN "none" ELSE m_outcome)
    ELSE IF outcome \in {"LabscriptError", "AssertionError"} THEN sent[Len(sent)][1]
    ELSE IF outcome = "IndexError" THEN "index"
    ELSE "none"

\* lines 175-186: the fresh reset and the read of the shot file
T2B_Start(f, file) ==
    /\ wpc = "idle"
    /\ mpc = "idle"
    /\ prior_fatal' = LastFatal
    /\ UNCHANGED <<device, all_ok>>
    /\ m_outcome' = "none"
    /\ run_status' = -1
    /\ abt_sent' = 0
    /\ replies' = <<>>
    /\ final_values' = NoDict
    /\ UNCHANGED <<rx, mpc, poll_i, front_panel_values, man_value, remote_values>>
    /\ calls' = calls + 1
    /\ h5' = file
    /\ fresh' = f
    /\ fresh_arg' = f
    /\ sent' = <<>>
    /\ new_inst' = -1
    /\ set_i' = 0
    /\ smart_cache' = IF f THEN NoCache ELSE smart_cache
    /\ cache0' = smart_cache'
    /\ IF file.present
       THEN /\ loaded' = [do_table |-> file.do_data, reps |-> file.reps_data]
            /\ wpc' = "clk"
            /\ outcome' = "running"
       ELSE /\ wpc' = "idle"
            /\ outcome' = "no_data"
            /\ UNCHANGED loaded
    /\ UNCHANGED <<pc, pending, update_times, words, wait_table, wait_i, do_table, reps, gen_result>>

\* a raise out of transition_to_buffered
Raise(error) ==
    /\ wpc' = "idle"
    /\ outcome' = error

\* lines 189-218: the clk command and the choice of strategy
T2B_Clk ==
    /\ wpc = "clk"
    /\ sent' = Append(sent, <<"clk">>)
    /\ \E x \in Exchanges(Responses) :
        Link(x) /\
        IF x.line # "ok"
        THEN /\ Raise("LabscriptError")
             /\ UNCHANGED <<fresh, new_inst, set_i>>
        ELSE LET compare == ~fresh /\ smart_cache.present
                 ninst == IF compare THEN NewInst(smart_cache, loaded) ELSE -1
                 fresh2 == fresh \/ (compare /\ OverThreshold(ninst, Len(loaded.reps)))
                 first == NextSet(smart_cache, loaded, 0)
             IN  /\ new_inst' = ninst
                 /\ fresh' = fresh2
                 /\ IF fresh2 \/ ~smart_cache.present
                    THEN wpc' = "cls" /\ UNCHANGED set_i
                    ELSE IF first = -1
                    THEN wpc' = "run" /\ UNCHANGED set_i
                    ELSE wpc' = "set" /\ set_i' = first
                 /\ UNCHANGED outcome
    /\ UNCHANGED <<smart_cache, loaded, cache0, fresh_arg, calls, prior_fatal, device, manualVars, panelVars>>
    /\ UNCHANGED compilerVars

\* line 220: clear the old program
T2B_Cls ==
    /\ wpc = "cls"
    /\ sent' = Append(sent, <<"cls">>)
    /\ \E x \in Exchanges(Responses) :
        Link(x) /\ Executes(x, EmptyProgram) /\
        IF x.line # "ok"
        THEN Raise("LabscriptError")
        ELSE wpc' = "adm" /\ UNCHANGED outcome
    /\ UNCHANGED <<smart_cache, fresh, loaded, set_i, new_inst, cache0, fresh_arg, calls, prior_fatal, manualVars, panelVars>>
    /\ UNCHANGED compilerVars

\* T2B_Adm leaving the cache as it was
T2B_Adm_NoCacheUpdate ==
    /\ wpc = "adm"
    /\ sent' = Append(sent, <<"adm", Len(loaded.reps)>>)
    /\ \E x \in Exchanges(Responses) :
        Link(x) /\ Executes(x, loaded) /\
        IF x.line # "ok"
        THEN Raise("AssertionError")
        ELSE wpc' = "run" /\ UNCHANGED outcome
    /\ UNCHANGED <<smart_cache, fresh, loaded, set_i, new_inst, cache0, fresh_arg, calls, prior_fatal, manualVars, panelVars>>
    /\ UNCHANGED compilerVars

\* lines 221-223: adm_batch of the whole table, then the cache is replaced
T2B_Adm ==
    /\ wpc = "adm"
    /\ sent' = Append(sent, <<"adm", Len(loaded.reps)>>)
    /\ \E x \in Exchanges(Responses) :
        Link(x) /\ Executes(x, loaded) /\
        IF x.line # "ok"
        THEN Raise("AssertionError") /\ UNCHANGED smart_cache
        ELSE /\ smart_cache' = [do_table |-> loaded.do_table, reps |-> loaded.reps,
                                present |-> TRUE]
             /\ wpc' = "run"
             /\ UNCHANGED outcome
    /\ UNCHANGED <<fresh, loaded, set_i, new_inst, cache0, fresh_arg, calls, prior_fatal, manualVars, panelVars>>
    /\ UNCHANGED compilerVars

\* lines 228-240: one 'set' command of the incremental loop and the cache
\* update after it, up to the next row the loop programs
T2B_Set ==
    /\ wpc = "set"
    /\ sent' = Append(sent, <<"set", set_i, loaded.do_table[set_i + 1], loaded.reps[set_i + 1]>>)
    /\ \E x \in Exchanges(Responses) :
        Link(x) /\
        Executes(x, DeviceSet(device, set_i, loaded.do_table[set_i + 1], loaded.reps[set_i + 1])) /\
        IF x.line # "ok"
        THEN Raise("LabscriptError") /\ UNCHANGED <<smart_cache, set_i>>
        ELSE IF set_i >= Len(smart_cache.reps)
        THEN \* smart_cache['do_table'][i] = output: i is past the end of the array
             Raise("IndexError") /\ UNCHANGED <<smart_cache, set_i>>
        ELSE LET patched == [smart_cache EXCEPT
                                !.do_table[set_i + 1] = loaded.do_table[set_i + 1],
                                !.reps[set_i + 1] = loaded.reps[set_i + 1]]
                 nxt == NextSet(patched, loaded, set_i + 1)
             IN  /\ smart_cache' = patched
                 /\ IF nxt = -1
                    THEN wpc' = "run" /\ UNCHANGED set_i
                    ELSE wpc' = "set" /\ set_i' = nxt
                 /\ UNCHANGED outcome
    /\ UNCHANGED <<fresh, loaded, new_inst, cache0, fresh_arg, calls, prior_fatal, manualVars, panelVars>>
    /\ UNCHANGED compilerVars

\* lines 242-247: start the program and return the final values
T2B_Run ==
    /\ wpc = "run"
    /\ sent' = Append(sent, <<"run">>)
    /\ \E x \in Exchanges(Responses) :
        Link(x) /\
        IF x.line # "ok"
        THEN Raise("LabscriptError") /\ UNCHANGED final_values
        ELSE /\ wpc' = "idle"
             /\ outcome' = "returned"
             /\ final_values' = int_to_dict(loaded.do_table[Len(loaded.do_table)])
    /\ UNCHANGED <<smart_cache, fresh, loaded, set_i, new_inst, cache0, fresh_arg, calls, prior_fatal, device, manualVars>>
    /\ UNCHANGED <<front_panel_values, man_value, remote_values>>
    /\ UNCHANGED compilerVars

\* ------------------------------------- PrawnDOWorker.transition_to_manual

\* line 261: the number of status polls after which the run is aborted
poll_cap == 1000

\* lines 249-255: the entry of transition_to_manual
T2M_Start ==
    /\ wpc = "idle"
    /\ mpc = "idle"
    /\ mpc' = "poll"
    /\ poll_i' = 0
    /\ run_status' = -1
    /\ abt_sent' = 0
    /\ m_outcome' = "running"
    /\ UNCHANGED <<wpc, smart_cache, fresh, loaded, set_i, new_inst, sent, outcome, cache0,
                   fresh_arg, calls, prior_fatal, device, linkVars, panelVars>>
    /\ UNCHANGED compilerVars

\* transition_to_manual returns True or raises: "True", or the LabscriptError
\* by its message: "invalid_status" (line 66), "returned_status" (line 267),
\* "did_not_end" (line 265), "abt_failed" (line 50); abort_buffered called on
\* its own returns True, "abort_True", or raises "abt_failed" or
\* "invalid_status"
ManualEnd(result) ==
    /\ mpc' = "idle"
    /\ m_outcome' = result
    /\ poll_i' = 0

\* T2M_Poll raising on status 6 as it does on 3, 4 and 5
T2M_Poll_SixRaises ==
    /\ mpc = "poll"
    /\ \E x \in Exchanges(StatusReplies) :
        /\ rx' = x.rx2
        /\ LET s == ParseStatus(x.line)
           IN  IF s = -1
               THEN ManualEnd("invalid_status") /\ UNCHANGED run_status
               ELSE /\ run_status' = s
                    /\ IF s = 0 THEN ManualEnd("True")
                       ELSE IF poll_i + 1 = poll_cap
                       THEN mpc' = "abt" /\ poll_i' = poll_i + 1 /\ UNCHANGED m_outcome
                       ELSE IF s \in {3, 4, 5, 6} THEN ManualEnd("returned_status")
                       ELSE poll_i' = poll_i + 1 /\ UNCHANGED <<mpc, m_outcome>>
    /\ UNCHANGED <<wpc, smart_cache, fresh, loaded, set_i, new_inst, sent, outcome, cache0,
                   fresh_arg, calls, prior_fatal, device, replies, all_ok, abt_sent, panelVars>>
    /\ UNCHANGED compilerVars

\* T2M_Poll aborting one poll early
T2M_Poll_CapMinusOne ==
    /\ mpc = "poll"
    /\ \E x \in Exchanges(StatusReplies) :
        /\ rx' = x.rx2
        /\ LET s == ParseStatus(x.line)
           IN  IF s = -1
               THEN ManualEnd("invalid_status") /\ UNCHANGED run_status
               ELSE /\ run_status' = s
                    /\ IF s = 0 THEN ManualEnd("True")
                       ELSE IF poll_i + 1 = poll_cap - 1
                       THEN mpc' = "abt" /\ poll_i' = poll_i + 1 /\ UNCHANGED m_outcome
                       ELSE IF s \in {3, 4, 5} THEN ManualEnd("returned_status")
                       ELSE poll_i' = poll_i + 1 /\ UNCHANGED <<mpc, m_outcome>>
    /\ UNCHANGED <<wpc, smart_cache, fresh, loaded, set_i, new_inst, sent, outcome, cache0,
                   fresh_arg, calls, prior_fatal, device, replies, all_ok, abt_sent, panelVars>>
    /\ UNCHANGED compilerVars

\* lines 256-267: one iteration of the polling loop
T2M_Poll ==
    /\ mpc = "poll"
    /\ \E x \in Exchanges(StatusReplies) :
        /\ rx' = x.rx2
        /\ LET s == ParseStatus(x.line)
           IN  IF s = -1
               THEN ManualEnd("invalid_status") /\ UNCHANGED run_status
               ELSE /\ run_status' = s
                    /\ IF s = 0 THEN ManualEnd("True")
                       ELSE IF poll_i + 1 = poll_cap
                       THEN mpc' = "abt" /\ poll_i' = poll_i + 1 /\ UNCHANGED m_outcome
                       ELSE IF s \in {3, 4, 5} THEN ManualEnd("returned_status")
                       ELSE poll_i' = poll_i + 1 /\ UNCHANGED <<mpc, m_outcome>>
    /\ UNCHANGED <<wpc, smart_cache, fresh, loaded, set_i, new_inst, sent, outcome, cache0,
                   fresh_arg, calls, prior_fatal, device, replies, all_ok, abt_sent, panelVars>>
    /\ UNCHANGED compilerVars

\* lines 121-145: check_status, called by BLACS between the operations: one
\* 'sts' exchange, whose result goes to the caller
check_status ==
    /\ wpc = "idle"
    /\ mpc = "idle"
    /\ \E x \in Exchanges(StatusReplies) : rx' = x.rx2
    /\ UNCHANGED <<wpc, smart_cache, fresh, loaded, set_i, new_inst, sent, outcome, cache0,
                   fresh_arg, calls, prior_fatal, device, replies, all_ok, manualVars, panelVars>>
    /\ UNCHANGED compilerVars

\* lines 269-274, 281-286: abort_buffered called by BLACS, directly or through
\* abort_transition_to_buffered
AB_Start ==
    /\ wpc = "idle"
    /\ mpc = "idle"
    /\ mpc' = "abt"
    /\ poll_i' = 0
    /\ run_status' = -1
    /\ abt_sent' = 0
    /\ m_outcome' = "aborting"
    /\ UNCHANGED <<wpc, smart_cache, fresh, loaded, set_i, new_inst, sent, outcome, cache0,
                   fresh_arg, calls, prior_fatal, device, linkVars, panelVars>>
    /\ UNCHANGED compilerVars

\* lines 264, 275: abort_buffered sends 'abt'
T2M_Abt ==
    /\ mpc = "abt"
    /\ abt_sent' = abt_sent + 1
    /\ \E x \in Exchanges(Responses) :
        /\ rx' = x.rx2
        /\ IF x.line # "ok"
           THEN ManualEnd("abt_failed")
           ELSE mpc' = "abort_poll" /\ UNCHANGED <<m_outcome, poll_i>>
    /\ UNCHANGED <<wpc, smart_cache, fresh, loaded, set_i, new_inst, sent, outcome, cache0,
                   fresh_arg, calls, prior_fatal, device, replies, all_ok, run_status, panelVars>>
    /\ UNCHANGED compilerVars

\* T2M_AbortPoll leaving the loop on status 4 as well
T2M_AbortPoll_LeavesOnAborting ==
    /\ mpc = "abort_poll"
    /\ \E x \in Exchanges(StatusReplies) :
        /\ rx' = x.rx2
        /\ LET s == ParseStatus(x.line)
           IN  IF s = -1
               THEN ManualEnd("invalid_status") /\ UNCHANGED run_status
               ELSE /\ run_status' = s
                    /\ IF s \in {4, 5}
                       THEN ManualEnd(IF m_outcome = "aborting" THEN "abort_True" ELSE "did_not_end")
                       ELSE UNCHANGED <<mpc, m_outcome, poll_i>>
    /\ UNCHANGED <<wpc, smart_cache, fresh, loaded, set_i, new_inst, sent, outcome, cache0,
                   fresh_arg, calls, prior_fatal, device, replies, all_ok, abt_sent, panelVars>>
    /\ UNCHANGED compilerVars

\* lines 277-279, 265: one iteration of the loop of abort_buffered; when the
\* status is 5 abort_buffered returns True, and transition_to_manual, when it
\* is the caller, raises
T2M_AbortPoll ==
    /\ mpc = "abort_poll"
    /\ \E x \in Exchanges(StatusReplies) :
        /\ rx' = x.rx2
        /\ LET s == ParseStatus(x.line)
           IN  IF s = -1
               THEN ManualEnd("invalid_status") /\ UNCHANGED run_status
               ELSE /\ run_status' = s
                    /\ IF s = 5
                       THEN ManualEnd(IF m_outcome = "aborting" THEN "abort_True" ELSE "did_not_end")
                       ELSE UNCHANGED <<mpc, m_outcome, poll_i>>
    /\ UNCHANGED <<wpc, smart_cache, fresh, loaded, set_i, new_inst, sent, outcome, cache0,
                   fresh_arg, calls, prior_fatal, device, replies, all_ok, abt_sent, panelVars>>
    /\ UNCHANGED compilerVars

\* ------------------------------------- PrawnDOWorker.program_manual

\* line 153 of program_manual: value = self._dict_to_int(front_panel_values)
PM_Fold ==
    /\ front_panel_values # NoDict
    /\ man_value = -1
    /\ man_value' = dict_to_int(front_panel_values)
    /\ UNCHANGED <<front_panel_values, remote_values, final_values>>
    /\ UNCHANGED <<wpc, smart_cache, fresh, loaded, set_i, new_inst, sent, outcome, cache0,
                   fresh_arg, calls, prior_fatal, device, linkVars, manualVars>>
    /\ UNCHANGED compilerVars

\* lines 159 and 171: self._int_to_dict(int(resp, 16)) of the word the device
\* reports for its outputs
PM_Unfold ==
    /\ man_value # -1
    /\ remote_values = NoDict
    /\ remote_values' = int_to_dict(man_value)
    /\ UNCHANGED <<front_panel_values, man_value, final_values>>
    /\ UNCHANGED <<wpc, smart_cache, fresh, loaded, set_i, new_inst, sent, outcome, cache0,
                   fresh_arg, calls, prior_fatal, device, linkVars, manualVars>>
    /\ UNCHANGED compilerVars

\* ---------------------------------------------------------- specifications

vars == <<compilerVars, workerVars>>

\* no call of program_manual or check_remote_values made
PanelStart ==
    /\ front_panel_values = NoDict
    /\ man_value = -1
    /\ remote_values = NoDict
    /\ final_values = NoDict

\* PrawnDOWorker.init: no call made, the cache empty
WorkerStart ==
    /\ wpc = "idle"
    /\ smart_cache = NoCache
    /\ fresh = FALSE
    /\ loaded = [do_table |-> <<>>, reps |-> <<>>]
    /\ set_i = 0
    /\ new_inst = -1
    /\ sent = <<>>
    /\ outcome = "none"
    /\ cache0 = NoCache
    /\ fresh_arg = FALSE
    /\ calls = 0
    /\ rx = <<>>
    /\ replies = <<>>
    /\ all_ok = TRUE
    /\ prior_fatal = "none"
    /\ device = EmptyProgram
    /\ mpc = "idle"
    /\ poll_i = 0
    /\ run_status = -1
    /\ abt_sent = 0
    /\ m_outcome = "none"

CompilerStart ==
    /\ pc = "merge"
    /\ words = <<>>
    /\ wait_table = <<>>
    /\ wait_i = 0
    /\ do_table = <<>>
    /\ reps = <<>>
    /\ h5 = NoData
    /\ gen_result = "none"

\* one compilation of a shot: every feeding order of up to MaxEvents change times
Init ==
    /\ CompilerStart
    /\ WorkerStart
    /\ PanelStart
    /\ update_times = <<>>
    /\ pending \in SeqsUpTo(TimeSet, MaxEvents)

Next ==
    \/ MergeStep
    \/ GenBegin
    \/ InsertWait
    \/ GenFinish

Spec == Init /\ [][Next]_vars

\* a single output toggling n times, minimum_duration apart, already merged
Grid(n) == [i \in 1..n |-> Ns((i - 1) * minimum_duration)]

\* compilations whose row count lies just below, at and above max_instructions
InitLimit ==
    /\ CompilerStart
    /\ WorkerStart
    /\ PanelStart
    /\ pending = <<>>
    /\ update_times \in {Grid(n) : n \in (max_instructions - 2)..max_instructions}

NextLimit ==
    \/ GenBegin
    \/ InsertWait
    \/ GenFinish

SpecLimit == InitLimit /\ [][NextLimit]_vars


\* the words of a shot of n instants: an output toggling at every instant,
\* with a second output high at the first v instants
ShotWords(n, v) == [i \in 1..n |-> IF i <= v THEN 2 + (i % 2) ELSE i % 2]

\* the datasets generate_code writes for Grid(n) with those words and no wait
Shot(n, v) ==
    [do_data |-> Append(ShotWords(n, v), 0),
     reps_data |-> Append(Append(DiffReps(Grid(n), "wrap"), Zero), Zero),
     present |-> TRUE]

\* shots of 2, 20 and 21 rows differing in 0 to 3 rows, and shots of 1000
\* rows differing in 1 and in 150 rows
ShotFiles ==
    {NoData}
    \cup {Shot(n, v) : n \in {1, 19, 20}, v \in 0..3}
    \cup {Shot(999, v) : v \in {0, 1, 150}}

\* a worker programming the device for a sequence of shots
InitWorker ==
    /\ WorkerStart
    /\ PanelStart
    /\ CompilerStart
    /\ pending = <<>>
    /\ update_times = <<>>

NextWorker ==
    \/ calls < MaxCalls /\ \E f \in BOOLEAN, file \in ShotFiles : T2B_Start(f, file)
    \/ T2B_Clk
    \/ T2B_Cls
    \/ T2B_Adm
    \/ T2B_Set
    \/ T2B_Run

SpecWorker == InitWorker /\ [][NextWorker]_vars

\* shots of 20 and 21 rows differing in 0, 1 and 3 rows, and a shot of 2 rows
DeviceFiles ==
    {Shot(n, v) : n \in {19, 20}, v \in {0, 1, 3}} \cup {Shot(1, 0)}

\* a worker and its device over a run of shots
NextDevice ==
    \/ calls < MaxShots /\ \E f \in BOOLEAN, file \in DeviceFiles : T2B_Start(f, file)
    \/ T2B_Clk
    \/ T2B_Cls
    \/ T2B_Adm
    \/ T2B_Set
    \/ T2B_Run

SpecDevice == InitWorker /\ [][NextDevice]_vars

\* transition_to_manual polling a device
NextManual ==
    \/ T2M_Start
    \/ T2M_Poll
    \/ T2M_Abt
    \/ T2M_AbortPoll

SpecManual == InitWorker /\ [][NextManual]_vars

\* the worker executes transition_to_manual on its own thread: the loop it is
\* in goes on to its next iteration
SpecManualFair ==
    /\ SpecManual
    /\ WF_vars(T2M_Poll)
    /\ WF_vars(T2M_Abt)
    /\ WF_vars(T2M_AbortPoll)

\* abort_buffered called on its own, again and again, with the status checks
\* of BLACS between the calls
NextAbort ==
    \/ check_status
    \/ AB_Start
    \/ T2M_Abt
    \/ T2M_AbortPoll

SpecAbort == InitWorker /\ [][NextAbort]_vars

\* the device's reply to the 'sts' of this iteration is run status 5: the line
\* read when the link is in step, the line left unread otherwise
ReportsAborted ==
    /\ T2M_AbortPoll
    /\ IF rx' = <<>> THEN run_status' = 5 ELSE rx'[Len(rx')] = StatusLines[6]

\* the worker executes abort_buffered on its own thread, and a device that
\* has acknowledged 'abt' and is polled again and again reports run status 5
\* at some poll
SpecAbortFair ==
    /\ SpecAbort
    /\ WF_vars(T2M_Abt)
    /\ WF_vars(T2M_AbortPoll)
    /\ SF_vars(ReportsAborted)

\* change times of a shot that is compiled and then programmed
ShotTimes == {Ns(0), Ns(100)}

\* a shot from its compilation to the worker: generate_code writes the shot
\* file and transition_to_buffered reads it
InitShot ==
    /\ CompilerStart
    /\ WorkerStart
    /\ PanelStart
    /\ update_times = <<>>
    /\ pending \in SeqsUpTo(ShotTimes, MaxEvents)

\* the shot file is the only table the worker is given, so that the
\* incremental loop finds no row to program
NextShot ==
    \/ MergeStep
    \/ GenBegin
    \/ InsertWait
    \/ GenFinish
    \/ pc = "done" /\ calls < MaxCalls /\ \E f \in BOOLEAN : T2B_Start(f, h5)
    \/ T2B_Clk
    \/ T2B_Cls
    \/ T2B_Adm
    \/ T2B_Run

SpecShot == InitShot /\ [][NextShot]_vars

\* program_manual for every assignment of 0/1 to the 16 outputs, and
\* check_remote_values for every 16-bit word the device can report
InitFold ==
    /\ CompilerStart
    /\ WorkerStart
    /\ pending = <<>>
    /\ update_times = <<>>
    /\ remote_values = NoDict
    /\ final_values = NoDict
    /\ \/ front_panel_values \in [Channels -> {0, 1}] /\ man_value = -1
       \/ front_panel_values = NoDict /\ man_value \in 0..(2^16 - 1)

NextFold ==
    \/ PM_Fold
    \/ PM_Unfold

SpecFold == InitFold /\ [][NextFold]_vars

\* ------------------------------------------------------------------- claims

\* C1: after each insertion step of get_update_times the merged instants are
\* strictly increasing and adjacent instants are at least min_duration apart.
C1_MergedSpacing ==
    \A i \in 1..(Len(update_times) - 1) :
        /\ NumLess(update_times[i], update_times[i + 1])
        /\ AtLeastMinDuration(TimeSub(update_times[i + 1], update_times[i]))

\* three instants merged, with change times still to be looked at
C1_Witness == Len(update_times) = 3 /\ pc = "merge"

\* np.rint(np.diff(times)/resolution) before the cast to uint32
ExactReps(times) ==
    [i \in 1..(Len(times) - 1) |-> RintCycles(TimeSub(times[i + 1], times[i]))]

\* C2: without waits, n instants give n+1 rows: row i < n-1 is
\* (w[i], round((t[i+1]-t[i])/resolution)), row n-1 is (w[n-1], 0), row n is
\* (0, 0), and do_data and reps_data have equal length.
C2_TableWithoutWaits ==
    (gen_result = "written" /\ wait_table = <<>>) =>
        /\ Len(h5.do_data) = Len(update_times) + 1
        /\ Len(h5.reps_data) = Len(h5.do_data)
        /\ h5.do_data = Append(words, 0)
        /\ h5.reps_data = Append(Append(ExactReps(update_times), Zero), Zero)

Scenario3 ==
    /\ update_times = <<Ns(0), Ns(100), Ns(100030)>>
    /\ words = <<0, 1, 3>>
    /\ wait_table = <<>>
    /\ gen_result = "written"

\* C3 as stated: instants 0, 100 ns, 100.03 us with words 0, 1, 3 compile to
\* repeat counts 10 and 9997.
C3_Scenario9997 ==
    Scenario3 =>
        /\ h5.do_data = <<0, 1, 3, 0>>
        /\ h5.reps_data = << <<0, 10>>, <<0, 9997>>, Zero, Zero >>

\* C3 amended: instants 0, 100 ns, 100.03 us with words 0, 1, 3 compile to the
\* table [(0,10), (1,9993), (3,0), (0,0)]: 100.03 us - 100 ns is 9993 cycles.
C3_Scenario9993 ==
    Scenario3 =>
        /\ h5.do_data = <<0, 1, 3, 0>>
        /\ h5.reps_data = << <<0, 10>>, <<0, 9993>>, Zero, Zero >>

C3_Witness == Scenario3

\* the table is built: between GenBegin and the end of generate_code
TableBuilt == pc = "waits" \/ gen_result \in {"written", "too_many"}

\* C4: at every point of the wait insertion and in the written datasets, the
\* last row is (0, 0) and the row before it has repeat count 0 and the word
\* of the last instant.
C4_TerminalPair ==
    /\ TableBuilt =>
        /\ Len(do_table) = Len(reps)
        /\ Len(reps) >= 2
        /\ do_table[Len(do_table)] = 0
        /\ reps[Len(reps)] = Zero
        /\ reps[Len(reps) - 1] = Zero
        /\ do_table[Len(do_table) - 1] = words[Len(words)]
    /\ gen_result = "written" => (h5.do_data = do_table /\ h5.reps_data = reps)

\* a table written after two waits, one before the first instant and one
\* after the last
C4_Witness ==
    /\ gen_result = "written"
    /\ wait_i = 2
    /\ \E j \in 1..2 : searchsorted(update_times, wait_table[j]) = 0
    /\ \E j \in 1..2 : searchsorted(update_times, wait_table[j]) = Len(update_times)

\* number of waits whose binary-search position is at most i (0-based)
WaitsUpTo(i) ==
    Cardinality({j \in 1..Len(wait_table) :
                    searchsorted(update_times, wait_table[j]) <= i})

\* C5: in the final table the row of instant i (and the closing row) stands
\* after the rows of all waits whose position is <= i, with its value kept, and
\* every other row is a wait row: repeat count 0 and the word of the row
\* before it (0 at index 0).
C5_WaitRowsInPlace ==
    gen_result = "written" =>
        LET n == Len(update_times)
            final_do == h5.do_data
            final_reps == h5.reps_data
            pos == [i \in 0..n |-> i + WaitsUpTo(i) + 1]
        IN  /\ Len(final_do) = n + 1 + Len(wait_table)
            /\ Len(final_reps) = Len(final_do)
            /\ \E mode \in CastModes :
                 LET base == Append(Append(DiffReps(update_times, mode), Zero), Zero)
                 IN  \A i \in 0..n :
                        /\ final_do[pos[i]] = Append(words, 0)[i + 1]
                        /\ final_reps[pos[i]] = base[i + 1]
            /\ \A p \in 1..Len(final_do) :
                 (\A i \in 0..n : pos[i] # p) =>
                    /\ final_reps[p] = Zero
                    /\ final_do[p] = IF p = 1 THEN 0 ELSE final_do[p - 1]

InCall == calls >= 1 /\ outcome \notin {"none", "no_data"}

\* the names of the commands sent in the current call
SentNames == [k \in 1..Len(sent) |-> sent[k][1]]

CountSent(name) == Cardinality({k \in 1..Len(sent) : sent[k][1] = name})

\* the upload of the current call was acknowledged in full
Uploaded == wpc = "run" \/ outcome = "returned"

\* C7: with fresh=True or an empty cache the worker sends cls and then the adm
\* batch of the whole table, never a 'set', and once the batch is acknowledged
\* the cache holds exactly the new table.
C7_FreshIsFullUpload ==
    (InCall /\ (fresh_arg \/ ~cache0.present)) =>
        /\ wpc # "set"
        /\ CountSent("set") = 0
        /\ Uploaded =>
            /\ SubSeq(sent, 1, 3) = << <<"clk">>, <<"cls">>, <<"adm", Len(loaded.reps)>> >>
            /\ smart_cache.present
            /\ smart_cache.do_table = loaded.do_table
            /\ smart_cache.reps = loaded.reps

\* a second call, forced fresh, has returned after programming 21 rows
C7_Witness ==
    /\ calls = 2
    /\ fresh_arg
    /\ outcome = "returned"
    /\ Len(loaded.reps) = 21
    /\ smart_cache.reps = loaded.reps

\* rows among the first n in which the cache of the call and the new table differ
DifferingRows(n) ==
    {i \in 1..n : <<cache0.do_table[i], cache0.reps[i]>> # <<loaded.do_table[i], loaded.reps[i]>>}

CommonLen == Min(Len(cache0.reps), Len(loaded.reps))

Abs(x) == IF x < 0 THEN -x ELSE x

\* C8 as stated: the number used for the decision is the number of mismatched
\* rows among the first min(len(cached), len(new)) rows plus
\* |len(cached) - len(new)|, and the worker goes to a full reprogram exactly
\* when that number divided by len(new) exceeds 0.1.
C8_CountsAbsLengthDiff ==
    new_inst # -1 =>
        LET n == Cardinality(DifferingRows(CommonLen))
                 + Abs(Len(cache0.reps) - Len(loaded.reps))
        IN  /\ new_inst = n
            /\ fresh <=> 10 * n > Len(loaded.reps)

\* C8 amended: the number used for the decision is the number of mismatched
\* rows among the first min(len(cached), len(new)) rows, plus
\* len(new) - len(cached) when the new table is the longer one; the extra rows
\* of a longer cache are not counted.  The worker goes to a full reprogram
\* exactly when that number divided by len(new) exceeds 0.1.
C8_CountsAppendedRowsOnly ==
    new_inst # -1 =>
        LET extra == Len(loaded.reps) - Len(cache0.reps)
            n == Cardinality(DifferingRows(CommonLen)) + (IF extra > 0 THEN extra ELSE 0)
        IN  /\ new_inst = n
            /\ fresh <=> 10 * n > Len(loaded.reps)

\* the decision was taken against a cache longer than the new table, with
\* mismatched rows, and fell on incremental programming
C8_Witness ==
    /\ new_inst > 0
    /\ Len(cache0.reps) > Len(loaded.reps)
    /\ ~fresh
    /\ wpc = "set"

\* the call compares a cache and a new table of the same length
SameLength == InCall /\ ~fresh_arg /\ cache0.present /\ Len(cache0.reps) = Len(loaded.reps)

\* C9: for a cache and a new table of the same length n with d differing rows:
\* d = 0 sends no cls, adm or set; 0 < 10*d <= n sends only 'set' commands,
\* exactly d of them in a call that returns; 10*d > n sends cls and adm and no
\* 'set'.
C9_StrategyBySameLengthDiff ==
    SameLength =>
        LET n == Len(loaded.reps)
            d == Cardinality(DifferingRows(n))
        IN  /\ d = 0 =>
                /\ CountSent("cls") + CountSent("adm") + CountSent("set") = 0
                /\ outcome = "returned" => SentNames = <<"clk", "run">>
            /\ (0 < d /\ 10 * d <= n) =>
                /\ CountSent("cls") + CountSent("adm") = 0
                /\ CountSent("set") <= d
                /\ outcome = "returned" =>
                    /\ CountSent("set") = d
                    /\ SentNames = <<"clk">> \o [k \in 1..d |-> "set"] \o <<"run">>
            /\ 10 * d > n =>
                /\ CountSent("set") = 0
                /\ outcome = "returned" => SentNames = <<"clk", "cls", "adm", "run">>

\* one differing row of 1000 was patched with a single 'set'
C9_Witness ==
    /\ SameLength
    /\ outcome = "returned"
    /\ Len(loaded.reps) = 1000
    /\ Cardinality(DifferingRows(1000)) = 1
    /\ SentNames = <<"clk", "set", "run">>

\* the call chose incremental programming
Incremental == InCall /\ new_inst # -1 /\ ~fresh

\* rows (0-based) of the new table that differ from the cache of the call or
\* lie past its end
RowsToSet ==
    {i \in 0..(Len(loaded.reps) - 1) :
        \/ i >= Len(cache0.reps)
        \/ <<cache0.do_table[i + 1], cache0.reps[i + 1]>> # <<loaded.do_table[i + 1], loaded.reps[i + 1]>>}

\* C10: under incremental programming every differing row and every row past
\* the end of the cache gets exactly one acknowledged 'set', unchanged rows get
\* none, the cache entry follows each acknowledged 'set', and the call goes on
\* to run; no error arises but a refused acknowledgment.
C10_IncrementalPatch ==
    Incremental =>
        /\ outcome # "IndexError"
        /\ \A k \in 1..Len(sent) : sent[k][1] = "set" => sent[k][2] \in RowsToSet
        /\ \A k, l \in 1..Len(sent) :
             (sent[k][1] = "set" /\ sent[l][1] = "set" /\ k < l) => sent[k][2] < sent[l][2]
        /\ Uploaded =>
             /\ {sent[k][2] : k \in {j \in 1..Len(sent) : sent[j][1] = "set"}} = RowsToSet
             /\ \A i \in 1..Len(loaded.reps) :
                  /\ smart_cache.do_table[i] = loaded.do_table[i]
                  /\ smart_cache.reps[i] = loaded.reps[i]

\* the call sent cls and the adm batch and no 'set': a full reprogram
FullReprogram ==
    /\ wpc # "set"
    /\ CountSent("set") = 0
    /\ Uploaded => (Len(sent) >= 3 /\ SubSeq(SentNames, 1, 3) = <<"clk", "cls", "adm">>)

\* C11: when the line read after the adm batch or after a 'set' is not ok, the
\* call raises without sending run and leaves the cache empty, and the next
\* call, also one with fresh=False, is a full reprogram.
C11_RefusedUploadEmptiesCache ==
    /\ (wpc = "idle" /\ LastFatal \in {"adm", "set"}) =>
        /\ CountSent("run") = 0
        /\ ~smart_cache.present
    /\ (InCall /\ prior_fatal \in {"adm", "set"}) => FullReprogram

\* transition_to_manual ended by raising
ManualError == m_outcome \in {"invalid_status", "returned_status", "did_not_end", "abt_failed"}

\* C12: 'abt' is not sent before the 1000th status poll; when the 1000th poll
\* reports a status other than manual, whichever it is, 'abt' is sent next,
\* once, and transition_to_manual then ends by raising, never by returning True.
C12_AbortAfterCap ==
    /\ [](/\ mpc = "poll" => (poll_i < poll_cap /\ abt_sent = 0)
          /\ mpc = "abt" => (poll_i = poll_cap /\ abt_sent = 0 /\ run_status # 0)
          /\ mpc = "abort_poll" => (poll_i = poll_cap /\ abt_sent = 1)
          /\ abt_sent <= 1
          /\ (mpc = "idle" /\ abt_sent = 1) => ManualError
          /\ m_outcome = "True" => abt_sent = 0)
    /\ [][(mpc = "poll" /\ poll_i = poll_cap - 1)
            => \/ mpc' = "abt" /\ poll_i' = poll_cap /\ run_status' \in 1..6
               \/ m_outcome' = "True" /\ run_status' = 0
               \/ m_outcome' = "invalid_status"]_vars
    /\ [][(mpc = "poll" /\ poll_i < poll_cap - 1) => mpc' # "abt"]_vars

\* 1000 polls reported buffered execution, 'abt' was acknowledged, the device
\* reported the abort and transition_to_manual raised
C12_Witness ==
    /\ mpc = "idle"
    /\ m_outcome = "did_not_end"
    /\ abt_sent = 1
    /\ run_status = 5

\* the fatal errors of the worker other than a refused upload: a refused clk,
\* cls, run or abt, a malformed status line, an abort status seen while
\* polling, the polling timeout
OtherFatal ==
    {"clk", "cls", "run", "abt_failed", "invalid_status", "returned_status", "did_not_end"}

\* C13: a call of transition_to_buffered with fresh=False that follows an
\* operation ended by a fatal error other than a refused upload is a full
\* reprogram.
C13_FatalErrorForcesReprogram ==
    (InCall /\ ~fresh_arg /\ prior_fatal \in OtherFatal) => FullReprogram

\* the device's reply to the command most recently written in the call
LastReply == replies[Len(replies)]

\* C14: the cache changes only when a fresh=True request empties it, when the
\* device has answered ok to the adm batch and the cache becomes the table of
\* that batch, or when the device has answered ok to 'set i' and row i of the
\* cache becomes the row of that command; an upload command the device did
\* not answer with ok leaves the cache as it was.
C14_CacheFollowsAcknowledgedUpload ==
    [][smart_cache' # smart_cache =>
        \/ /\ wpc = "idle"
           /\ calls' = calls + 1
           /\ fresh_arg'
           /\ smart_cache' = NoCache
        \/ /\ wpc = "adm"
           /\ LastReply' = "ok"
           /\ smart_cache' = [do_table |-> loaded.do_table, reps |-> loaded.reps, present |-> TRUE]
        \/ /\ wpc = "set"
           /\ LastReply' = "ok"
           /\ smart_cache' = [smart_cache EXCEPT
                                !.do_table[set_i + 1] = loaded.do_table[set_i + 1],
                                !.reps[set_i + 1] = loaded.reps[set_i + 1]]]_vars

\* C15: whenever the worker writes a command, also after a read that timed
\* out, no reply to an earlier command is still unread, so that the line it
\* reads next is the reply to the command it has just written.
C15_OneExchangeOutstanding ==
    [][(wpc # "idle" \/ mpc # "idle") => rx = <<>>]_vars

\* C16: in a call that finds a table, every upload command (adm batch or
\* 'set') comes after a clk the device answered with ok; the adm batch comes
\* right after a cls the device answered with ok; run is sent at most once, as
\* the last command, after the device answered every earlier command of the
\* call with ok; a call that returns has sent run.
C16_CommandOrder ==
    InCall =>
        /\ \A k \in 1..Len(sent) :
            /\ sent[k][1] \in {"adm", "set"} =>
                \E j \in 1..(k - 1) : sent[j][1] = "clk" /\ replies[j] = "ok"
            /\ sent[k][1] = "adm" =>
                (k > 1 /\ sent[k - 1][1] = "cls" /\ replies[k - 1] = "ok")
            /\ sent[k][1] = "run" =>
                (k = Len(sent) /\ \A j \in 1..(k - 1) : replies[j] = "ok")
        /\ CountSent("run") <= 1
        /\ outcome = "returned" => sent[Len(sent)][1] = "run"

\* C17: an empty sequence of merged instants gives no do_data and reps_data,
\* and a call of transition_to_buffered on a shot file without do_data returns
\* with no command sent and no table in the cache.
C17_EmptyShotIsSkipped ==
    /\ (pc = "done" /\ Len(update_times) = 0) => (gen_result = "skipped" /\ h5 = NoData)
    /\ (calls >= 1 /\ ~h5.present) =>
        /\ wpc = "idle"
        /\ outcome = "no_data"
        /\ sent = <<>>
        /\ smart_cache = NoCache

\* the shot with no change time was compiled and handed to the worker twice,
\* the second time with fresh=True
C17_Witness ==
    /\ Len(update_times) = 0
    /\ gen_result = "skipped"
    /\ calls = 2
    /\ fresh_arg
    /\ outcome = "no_data"

\* C18: the dictionary made from a word folds back to that word; the word
\* made from a dictionary of 0/1 states unfolds to that dictionary; and bit i
\* of the word is set exactly when output i is high.
C18_FoldRoundTrip ==
    /\ remote_values # NoDict =>
        /\ dict_to_int(remote_values) = man_value
        /\ \A i \in 0..15 : remote_values[hex(i)] = BitAt(man_value, i)
    /\ (front_panel_values # NoDict /\ man_value # -1) =>
        /\ man_value \in 0..(2^16 - 1)
        /\ \A i \in 0..15 : BitAt(man_value, i) = 1 <=> front_panel_values[hex(i)] = 1
    /\ (front_panel_values # NoDict /\ remote_values # NoDict) =>
        remote_values = front_panel_values

\* outputs 0 and 15 high, the others low, folded to 0x8001 and unfolded
C18_Witness ==
    /\ front_panel_values = [conn \in Channels |-> IF conn \in {"0x0", "0xf"} THEN 1 ELSE 0]
    /\ man_value = 32769
    /\ remote_values = front_panel_values

\* the rows of a table with repeat count 0
ZeroRows(r) == {p \in 1..Len(r) : r[p] = Zero}

\* C19: at every point of the construction and in the written table the rows
\* with repeat count 0 are the wait rows inserted so far and the two rows of
\* the terminal pair: no row of an interval between two merged instants has
\* repeat count 0.
C19_ZeroOnlyInWaitAndTerminal ==
    /\ TableBuilt => Cardinality(ZeroRows(reps)) = wait_i + 2
    /\ gen_result = "written" => Cardinality(ZeroRows(h5.reps_data)) = Len(wait_table) + 2

\* C20: every call of transition_to_manual ends, by returning True or by
\* raising, whatever the device answers.
C20_ManualTerminates == (mpc # "idle") ~> (mpc = "idle")

\* C26: the repeat count stored for each pair of consecutive merged instants
\* is the number of clock cycles between them, round(gap/resolution), also
\* for a gap of 2^32 cycles or more: it is not that number modulo 2^32.
C26_RepsAreExactCycles ==
    (pc = "waits" /\ wait_i = 0) =>
        \A i \in 1..(Len(update_times) - 1) :
            reps[i] = RintCycles(TimeSub(update_times[i + 1], update_times[i]))

\* the orders in which the change times of a sequence can be processed
Reorderings(times) ==
    {[k \in 1..Len(times) |-> times[p[k]]] :
        p \in {q \in [1..Len(times) -> 1..Len(times)] :
                  \A a, b \in 1..Len(times) : a # b => q[a] # q[b]}}

Elements(a) == {a[k] : k \in 1..Len(a)}

\* C25: the merged instants get_update_times returns depend only on the set of
\* change times, not on the order in which they are processed: every order of
\* the change times still to be processed gives the same merged sequence;
\* processing a change time either inserts it or leaves the sequence as it was,
\* so that every merged instant is one of the change times.
C25_MergeIsOrderIndependent ==
    pc = "merge" =>
        /\ \A order \in Reorderings(pending) :
              MergeAll(update_times, order) = MergeAll(update_times, pending)
        /\ pending # <<>> =>
              LET after == InsertTime(update_times, Head(pending))
              IN  \/ after = update_times
                  \/ /\ Len(after) = Len(update_times) + 1
                     /\ Elements(after) = Elements(update_times) \cup {Head(pending)}

\* C24: the final values a successful transition_to_buffered returns are the
\* states of the outputs in the last word the program drives, the word of the
\* hold-forever row of the terminal pair, not those of the placeholder row
\* after it.
C24_FinalValuesAreLastDrivenWord ==
    (gen_result = "written" /\ outcome = "returned") =>
        final_values = int_to_dict(words[Len(words)])

\* C23: over any sequence of calls of transition_to_buffered in which the
\* device has answered ok to every command and stored the rows as commanded,
\* when 'run' is about to be sent the first len(new) rows resident in the
\* device are the new table and the first len(new) rows of the cache are
\* those rows of the device.
C23_DeviceHoldsNewTable ==
    (wpc = "run" /\ all_ok) =>
        LET n == Len(loaded.reps)
        IN  /\ Len(device.reps) >= n
            /\ Len(smart_cache.reps) >= n
            /\ \A i \in 1..n :
                 /\ device.do_table[i] = loaded.do_table[i]
                 /\ device.reps[i] = loaded.reps[i]
                 /\ smart_cache.do_table[i] = device.do_table[i]
                 /\ smart_cache.reps[i] = device.reps[i]

\* C22: transition_to_manual returns True only when its latest status poll
\* gave run status 0; a poll before the 1000th that gives 1, 2 or 6 is
\* followed by another poll; a poll before the 1000th that gives 3, 4 or 5
\* makes it raise, with no 'abt' sent and without returning True.
C22_AbortedIsNotCompleted ==
    /\ [](/\ m_outcome = "True" => (run_status = 0 /\ abt_sent = 0)
          /\ m_outcome = "returned_status" => (run_status \in {3, 4, 5} /\ abt_sent = 0))
    /\ [][(mpc = "poll" /\ poll_i < poll_cap - 1) =>
            \/ run_status' = 0 /\ mpc' = "idle" /\ m_outcome' = "True"
            \/ /\ run_status' \in {1, 2, 6}
               /\ mpc' = "poll"
               /\ poll_i' = poll_i + 1
               /\ m_outcome' = "running"
            \/ /\ run_status' \in {3, 4, 5}
               /\ mpc' = "idle"
               /\ m_outcome' = "returned_status"
               /\ abt_sent' = 0
            \/ run_status' = run_status /\ mpc' = "idle" /\ m_outcome' = "invalid_status"]_vars

\* a poll gave run status 5 and transition_to_manual raised, with no 'abt'
\* sent
C22_Witness ==
    /\ mpc = "idle"
    /\ m_outcome = "returned_status"
    /\ run_status = 5
    /\ abt_sent = 0

\* abort_buffered writes 'abt' once, before its first status poll; a poll
\* that gives a run status other than 5 is followed by another poll, however
\* many there have been; it returns True only when a poll has given 5
AbortPollsUntilAborted ==
    /\ [](/\ abt_sent <= 1
          /\ mpc = "abt" => abt_sent = 0
          /\ mpc = "abort_poll" => abt_sent = 1
          /\ m_outcome = "abort_True" => (run_status = 5 /\ abt_sent = 1))
    /\ [][mpc = "abort_poll" =>
            \/ run_status' = 5 /\ mpc' = "idle" /\ m_outcome' = "abort_True"
            \/ /\ run_status' \in {0, 1, 2, 3, 4, 6}
               /\ mpc' = "abort_poll"
               /\ abt_sent' = 1
               /\ m_outcome' = "aborting"
            \/ run_status' = run_status /\ mpc' = "idle" /\ m_outcome' = "invalid_status"]_vars

\* C21 as stated: abort_buffered sends 'abt' once and then polls the status
\* with no iteration bound; it returns True only after a poll has reported run
\* status 5; and, the device eventually reporting 5 after an acknowledged
\* abort, abort_buffered eventually returns True.
C21_AbortReturnsTrue ==
    /\ AbortPollsUntilAborted
    /\ (mpc = "abort_poll") ~> (m_outcome = "abort_True")

\* C21 amended: abort_buffered sends 'abt' once and then polls the status
\* with no iteration bound; it returns True only after a poll has reported run
\* status 5; and, the device eventually reporting 5 after an acknowledged
\* abort, abort_buffered eventually ends: it returns True, or it raises
\* because the line read in reply to a 'sts' is not a status line.
C21_AbortReturnsTrueOrRaises ==
    /\ AbortPollsUntilAborted
    /\ (mpc = "abort_poll") ~> (mpc = "idle" /\ m_outcome \in {"abort_True", "invalid_status"})

\* abort_buffered has returned True: 'abt' was written once and the last poll
\* gave run status 5
C21_Witness ==
    /\ mpc = "idle"
    /\ m_outcome = "abort_True"
    /\ run_status = 5
    /\ abt_sent = 1

====
